---- MODULE Spec2Model ----
(***************************************************************************)
(* Product / order management API (jbmaster023/product-management).        *)
(*                                                                         *)
(* Two servers of the repository are modelled:                             *)
(*   - backend/server.js (and its listing extension, part_002 lines 1-120):*)
(*     paginated listings over PostgreSQL tables;                          *)
(*   - the in-memory server (part_002 lines 524-930, part_005): CRUD on a  *)
(*     JavaScript array.                                                   *)
(*                                                                         *)
(* Encodings.  A JavaScript string is a sequence of one-character strings. *)
(* A JavaScript number is a record [k, v]: k = "num" with the integer v,   *)
(* k = "nan" for NaN, k = "null" for the null of a response field.  A      *)
(* query-string value is a record [t, s]: t = "absent" when the parameter  *)
(* is missing, "str" for a plain value, "arr" for a repeated parameter     *)
(* (Express hands the handler an array; s is then String(array), the items *)
(* joined with a comma).                                                   *)
(***************************************************************************)
EXTENDS Integers, Sequences, FiniteSets, TLC

VARIABLES
    productos,          \* rows of table productos (with their inventory sum), in insertion order
    pedidos,            \* rows of table pedidos
    nextId,             \* next value of the productos SERIAL id_articulo
    functionsAvailable, \* server.js:20 flags of the optional routines
    req,                \* the request handled last: endpoint and raw query
    norm,               \* the handler's normalized locals (pageNum, limitNum, offset, sortField, sortDirection)
    dataQ,              \* the data query executed last: parameters bound and rows it ranged over
    resp,               \* the response sent last
    routine,            \* the optional routine the last request called, and how the call ended
    inflight,           \* a products listing between its count query and its data query
    products,           \* in-memory server: the products array
    clock,              \* in-memory server: the value Date.now() returns next
    memReq,             \* in-memory server: the request handled last
    memResp,            \* in-memory server: the response sent last
    dbConnected,        \* hybrid server: let dbConnected
    memoryProducts,     \* hybrid server: let memoryProducts
    pgProducts,         \* hybrid server: rows of its PostgreSQL table products
    hybPhase,           \* hybrid server: position of startServer ("boot", "probed", "serving")
    hybReq,             \* hybrid server: the request handled last
    hybQuery,           \* hybrid server: how the backend queries of that request ended
    hybResp,            \* hybrid server: the response sent last
    clients             \* hybrid server: pool clients acquired and not released

relVars == <<productos, pedidos, nextId, functionsAvailable, req, norm, dataQ, resp, routine,
            inflight>>
memVars == <<products, clock, memReq, memResp>>
hybVars == <<dbConnected, memoryProducts, pgProducts, hybPhase, hybReq, hybQuery, hybResp,
            clients>>
vars == <<productos, pedidos, nextId, functionsAvailable, req, norm, dataQ, resp, routine,
          inflight,
          products, clock, memReq, memResp,
          dbConnected, memoryProducts, pgProducts, hybPhase, hybReq, hybQuery, hybResp,
          clients>>

----------------------------------------------------------------------------
(* Bounds of the model *)

MaxRows == 3        \* rows the productos table may hold
MaxProducts == 3    \* records the in-memory products array may hold
MaxHybrid == 5      \* records either store of the hybrid server may hold
MaxClock == 3       \* milliseconds the clock read by Date.now() may advance

----------------------------------------------------------------------------
(* JavaScript numbers *)

Num(n) == [k |-> "num", v |-> n]
NaN == [k |-> "nan", v |-> 0]
Null == [k |-> "null", v |-> 0]
IsNum(x) == x.k = "num"
IsNaN(x) == x.k = "nan"

MaxInt(a, b) == IF a >= b THEN a ELSE b
MinInt(a, b) == IF a <= b THEN a ELSE b

\* Math.max(a, b): NaN as soon as one argument is NaN
MathMax(a, b) == IF IsNaN(a) \/ IsNaN(b) THEN NaN ELSE Num(MaxInt(a.v, b.v))
\* Math.min(a, b)
MathMin(a, b) == IF IsNaN(a) \/ IsNaN(b) THEN NaN ELSE Num(MinInt(a.v, b.v))
\* a - b, a + b, a * b on numbers
JsSub(a, b) == IF IsNaN(a) \/ IsNaN(b) THEN NaN ELSE Num(a.v - b.v)
JsAdd(a, b) == IF IsNaN(a) \/ IsNaN(b) THEN NaN ELSE Num(a.v + b.v)
JsMul(a, b) == IF IsNaN(a) \/ IsNaN(b) THEN NaN ELSE Num(a.v * b.v)
\* a < b and a > b: every comparison with NaN is false
JsLt(a, b) == IsNum(a) /\ IsNum(b) /\ a.v < b.v
JsGt(a, b) == IsNum(a) /\ IsNum(b) /\ a.v > b.v
\* ceil(n / d) for integers n >= 0, d >= 1
CeilDiv(n, d) == (n + d - 1) \div d
\* Math.ceil(a / b) where a >= 0 is an integer and b is NaN or an integer >= 1
MathCeilDiv(a, b) == IF IsNaN(a) \/ IsNaN(b) THEN NaN ELSE Num(CeilDiv(a.v, b.v))

----------------------------------------------------------------------------
(* JavaScript strings *)

Digits == <<"0", "1", "2", "3", "4", "5", "6", "7", "8", "9">>
IsDigit(c) == \E i \in 1..10 : Digits[i] = c
DigitVal(c) == (CHOOSE i \in 1..10 : Digits[i] = c) - 1

\* the letters, lower case and upper case
CasePairs == { <<"a", "A">>, <<"b", "B">>, <<"c", "C">>, <<"d", "D">>,
               <<"e", "E">>, <<"f", "F">>, <<"g", "G">>, <<"h", "H">>,
               <<"i", "I">>, <<"j", "J">>, <<"k", "K">>, <<"l", "L">>,
               <<"m", "M">>, <<"n", "N">>, <<"o", "O">>, <<"p", "P">>,
               <<"q", "Q">>, <<"r", "R">>, <<"s", "S">>, <<"t", "T">>,
               <<"u", "U">>, <<"v", "V">>, <<"w", "W">>, <<"x", "X">>,
               <<"y", "Y">>, <<"z", "Z">> }
UpperOf == [c \in {p[1] : p \in CasePairs} |-> (CHOOSE p \in CasePairs : p[1] = c)[2]]
LowerOf == [c \in {p[2] : p \in CasePairs} |-> (CHOOSE p \in CasePairs : p[2] = c)[1]]
UpperChar(c) == IF c \in DOMAIN UpperOf THEN UpperOf[c] ELSE c
LowerChar(c) == IF c \in DOMAIN LowerOf THEN LowerOf[c] ELSE c
\* String.prototype.toUpperCase / toLowerCase
toUpperCase(s) == [i \in 1..Len(s) |-> UpperChar(s[i])]
toLowerCase(s) == [i \in 1..Len(s) |-> LowerChar(s[i])]

\* String.prototype.includes: t occurs in s as a contiguous substring
includes(s, t) ==
    \E i \in 0..(Len(s) - Len(t)) : \A j \in 1..Len(t) : s[i + j] = t[j]

\* value of a sequence of digits
RECURSIVE DigitsValue(_)
DigitsValue(ds) ==
    IF Len(ds) = 0 THEN 0
    ELSE 10 * DigitsValue(SubSeq(ds, 1, Len(ds) - 1)) + DigitVal(ds[Len(ds)])

\* length of the longest prefix of s made of digits
RECURSIVE DigitPrefixLen(_)
DigitPrefixLen(s) ==
    IF Len(s) = 0 \/ ~IsDigit(s[1]) THEN 0 ELSE 1 + DigitPrefixLen(Tail(s))

\* parseInt(string): optional sign, then the longest run of digits; NaN when
\* there is no digit (the alphabet has no white space and no 0x prefix)
ParseIntStr(s) ==
    LET neg  == Len(s) > 0 /\ s[1] = "-"
        body == IF Len(s) > 0 /\ (s[1] = "-" \/ s[1] = "+") THEN Tail(s) ELSE s
        k    == DigitPrefixLen(body)
    IN IF k = 0 THEN NaN
       ELSE Num((IF neg THEN -1 ELSE 1) * DigitsValue(SubSeq(body, 1, k)))

\* Number(string) as the loose equality p.id == id computes it: the whole
\* string must be an optionally signed run of digits, otherwise NaN
ToNumberStr(s) ==
    LET neg  == Len(s) > 0 /\ s[1] = "-"
        body == IF Len(s) > 0 /\ (s[1] = "-" \/ s[1] = "+") THEN Tail(s) ELSE s
    IN IF Len(s) = 0 THEN Num(0)
       ELSE IF Len(body) > 0 /\ DigitPrefixLen(body) = Len(body)
            THEN Num((IF neg THEN -1 ELSE 1) * DigitsValue(body))
            ELSE NaN

----------------------------------------------------------------------------
(* Query-string values *)

Absent == [t |-> "absent", s |-> <<>>]
\* a missing sort_by (its values are field names, kept as whole strings)
AbsentName == [t |-> "absent", s |-> ""]
Str(s) == [t |-> "str", s |-> s]
Arr(s) == [t |-> "arr", s |-> s]

\* a request without query string
EmptyQuery == [search |-> Absent, status |-> Absent, category |-> Absent,
               customer |-> Absent, branch |-> Absent, page |-> Absent,
               limit |-> Absent, sort_by |-> AbsentName, sort_order |-> Absent]

\* parseInt of a destructured query parameter whose default is the number dflt
ParseIntParam(q, dflt) == IF q.t = "absent" THEN Num(dflt) ELSE ParseIntStr(q.s)

----------------------------------------------------------------------------
(* PostgreSQL side: comparison of column values, LIKE, ORDER BY *)

\* the characters of the model in code-point order
Alphabet == << "%", ",", "-", "0", "1", "2", "3", "4", "5", "6", "7", "8",
               "9", "A", "B", "C", "D", "E", "F", "G", "H", "I", "J", "K",
               "L", "M", "N", "O", "P", "Q", "R", "S", "T", "U", "V", "W",
               "X", "Y", "Z", "_", "a", "b", "c", "d", "e", "f", "g", "h",
               "i", "j", "k", "l", "m", "n", "o", "p", "q", "r", "s", "t",
               "u", "v", "w", "x", "y", "z" >>
CodeOf == [c \in {Alphabet[i] : i \in 1..Len(Alphabet)} |->
             CHOOSE i \in 1..Len(Alphabet) : Alphabet[i] = c]
CharCode(c) == CodeOf[c]

\* s <= t in the lexicographic order of the character codes
RECURSIVE StrLeq(_, _)
StrLeq(s, t) ==
    IF Len(s) = 0 THEN TRUE
    ELSE IF Len(t) = 0 THEN FALSE
    ELSE IF s[1] = t[1] THEN StrLeq(Tail(s), Tail(t))
    ELSE CharCode(s[1]) < CharCode(t[1])

\* str LIKE pat: % matches any run of characters, _ any one character
RECURSIVE Like(_, _)
Like(str, pat) ==
    IF Len(pat) = 0 THEN Len(str) = 0
    ELSE IF pat[1] = "%"
         THEN Like(str, Tail(pat)) \/ (Len(str) > 0 /\ Like(Tail(str), pat))
    ELSE Len(str) > 0 /\ (pat[1] = "_" \/ pat[1] = str[1]) /\ Like(Tail(str), Tail(pat))

\* LOWER(col) LIKE LOWER('%' || term || '%')
LikeContains(col, term) ==
    Like(toLowerCase(col), toLowerCase(<<"%">> \o term \o <<"%">>))

\* the columns ORDER BY may name hold strings or integers
StringColumns == {"nombre", "categoria", "cliente_nombre", "estado"}

\* a <= b for two values of column field
ColLeq(a, b, field) == IF field \in StringColumns THEN StrLeq(a, b) ELSE a <= b

\* a comes no later than b under ORDER BY field direction
OrderedPair(a, b, field, direction) ==
    IF direction = "DESC" THEN ColLeq(b[field], a[field], field)
    ELSE ColLeq(a[field], b[field], field)

\* the arrangements of the rows at the positions idx that respect the order:
\* a row that may come first, followed by an arrangement of the others
RECURSIVE OrderedArrangements(_, _, _, _)
OrderedArrangements(rows, idx, field, direction) ==
    IF idx = {} THEN { <<>> }
    ELSE UNION { { <<rows[i]>> \o rest :
                     rest \in OrderedArrangements(rows, idx \ {i}, field, direction) } :
                 i \in { k \in idx : \A j \in idx :
                            OrderedPair(rows[k], rows[j], field, direction) } }

\* the sequences ORDER BY field direction can return for the rows (rows
\* equal on the key come in any order)
OrderBy(rows, field, direction) ==
    OrderedArrangements(rows, 1..Len(rows), field, direction)

\* LIMIT lim OFFSET off applied to an ordered result
LimitOffset(rows, lim, off) == SubSeq(rows, off + 1, MinInt(Len(rows), off + lim))

\* the names ORDER BY may use on the rows of productos (columns of p, and
\* stock_total, which is ordered by the aggregate) and of pedidos; a query
\* that names another column fails
ProductoColumns == {"id_articulo", "nombre", "descripcion", "categoria", "precio",
                    "activo", "created_at", "stock_total"}
PedidoColumns == {"id", "cliente_nombre", "total", "estado", "created_at"}

\* PostgreSQL accepts the bound LIMIT / OFFSET values only when they are
\* integers: the driver sends NaN as the text 'NaN', which is no bigint
BindsAsBigint(x) == IsNum(x) /\ x.v >= 0

----------------------------------------------------------------------------
(* String literals of the handlers *)

sASC == <<"A", "S", "C">>
sDESC == <<"D", "E", "S", "C">>
sActive == <<"a", "c", "t", "i", "v", "e">>
sInactive == <<"i", "n", "a", "c", "t", "i", "v", "e">>
sCompleted == <<"c", "o", "m", "p", "l", "e", "t", "e", "d">>
sPending == <<"p", "e", "n", "d", "i", "n", "g">>

\* a destructured parameter: the default replaces a missing value only
WithDefault(q, dflt) == IF q.t = "absent" THEN Str(dflt) ELSE q
\* truthiness of a query value after its '' default
Truthy(q) == q.t = "arr" \/ (q.t = "str" /\ q.s # <<>>)

----------------------------------------------------------------------------
(* Query normalization, as the listing handlers of server.js do it inline *)

\* `limit = 10` (products, orders), `limit = 20` (low-stock report)
DefaultLimit(ep) == IF ep = "lowstock" THEN 20 ELSE 10
\* `sort_by = ...` and the fallback of the allow-list test
DefaultSortField(ep) ==
    CASE ep = "orders" -> "created_at"
      [] ep = "lowstock" -> "cantidad"
      [] OTHER -> "nombre"
\* `sort_order = ...`
DefaultSortOrder(ep) == IF ep = "orders" THEN sDESC ELSE sASC
\* validSortFields
ValidSortFields(ep) ==
    CASE ep = "products" ->
           {"nombre", "precio", "categoria", "created_at", "stock_total", "id_articulo"}
      [] ep = "productsExt" ->
           {"nombre", "precio", "categoria", "created_at", "stock_total"}
      [] ep = "orders" -> {"created_at", "total", "cliente_nombre", "estado", "id"}
      [] OTHER -> {"cantidad", "nombre", "sucursal"}

\* const pageNum = Math.max(1, parseInt(page));
PageNum(q) == MathMax(Num(1), ParseIntParam(q.page, 1))

\* const limitNum = Math.min(100, Math.max(1, parseInt(limit)));
LimitNum(ep, q) ==
    MathMin(Num(100), MathMax(Num(1), ParseIntParam(q.limit, DefaultLimit(ep))))

\* const offset = (pageNum - 1) * limitNum;
\* (variant that forgets the "- 1")
OffsetOneBased(pageNum, limitNum) == JsMul(pageNum, limitNum)
Offset(pageNum, limitNum) == JsMul(JsSub(pageNum, Num(1)), limitNum)

\* const sortField = validSortFields.includes(sort_by) ? sort_by : <default>;
\* an array is never an element of the allow-list
\* (variant without the allow-list test)
SortFieldRaw(ep, q) == WithDefault(q.sort_by, DefaultSortField(ep)).s
SortField(ep, q) ==
    LET v == WithDefault(q.sort_by, DefaultSortField(ep))
    IN IF v.t = "str" /\ v.s \in ValidSortFields(ep) THEN v.s ELSE DefaultSortField(ep)

\* sort_order.toUpperCase() throws a TypeError when sort_order is an array
SortDirectionThrows(ep, q) == WithDefault(q.sort_order, DefaultSortOrder(ep)).t = "arr"
\* const sortDirection = sort_order.toUpperCase() === 'DESC' ? 'DESC' : 'ASC';
SortDirection(ep, q) ==
    IF toUpperCase(WithDefault(q.sort_order, DefaultSortOrder(ep)).s) = sDESC
    THEN "DESC" ELSE "ASC"

\* the locals of a listing handler once the parameters are validated
Normalize(ep, q) ==
    [pageNum |-> PageNum(q),
     limitNum |-> LimitNum(ep, q),
     offset |-> Offset(PageNum(q), LimitNum(ep, q)),
     sortField |-> SortField(ep, q),
     sortDirection |-> IF SortDirectionThrows(ep, q) THEN "threw" ELSE SortDirection(ep, q)]

NoNorm == [pageNum |-> Null, limitNum |-> Null, offset |-> Null,
           sortField |-> "none", sortDirection |-> "none"]

----------------------------------------------------------------------------
(* Pagination metadata and response envelope *)

\* const totalPages = Math.ceil(totalCount / limitNum);
TotalPages(totalCount, limitNum) == MathCeilDiv(totalCount, limitNum)
\* const hasNextPage = pageNum < totalPages;
\* (variant with <= for <)
HasNextPageInclusive(pageNum, totalPages) ==
    IsNum(pageNum) /\ IsNum(totalPages) /\ pageNum.v <= totalPages.v
HasNextPage(pageNum, totalPages) == JsLt(pageNum, totalPages)
\* const hasPrevPage = pageNum > 1;
HasPrevPage(pageNum) == JsGt(pageNum, Num(1))

\* res.json serializes NaN as null
Json(x) == IF IsNaN(x) THEN Null ELSE x

\* the object handed to res.json by a listing handler
ListingResponse(records, pageNum, limitNum, totalCount, sortField, sortDirection) ==
    LET totalPages == TotalPages(totalCount, limitNum)
        hasNextPage == HasNextPage(pageNum, totalPages)
        hasPrevPage == HasPrevPage(pageNum)
    IN [code |-> 200,
        records |-> records,
        current_page |-> Json(pageNum),
        total_pages |-> Json(totalPages),
        per_page |-> Json(limitNum),
        total_items |-> Json(totalCount),
        has_next_page |-> hasNextPage,
        has_prev_page |-> hasPrevPage,
        next_page |-> IF hasNextPage THEN Json(JsAdd(pageNum, Num(1))) ELSE Null,
        prev_page |-> IF hasPrevPage THEN Json(JsSub(pageNum, Num(1))) ELSE Null,
        sort_by |-> sortField,
        sort_order |-> sortDirection]

\* a response without listing envelope: res.status(code).json({...})
PlainResponse(code, records) ==
    [code |-> code, records |-> records,
     current_page |-> Null, total_pages |-> Null, per_page |-> Null,
     total_items |-> Null, has_next_page |-> FALSE, has_prev_page |-> FALSE,
     next_page |-> Null, prev_page |-> Null, sort_by |-> "none", sort_order |-> "none"]

\* the optional routines of functionsAvailable the handlers call
Routines == {"obtener_estadisticas", "buscar_productos"}
\* the request called no routine
NoRoutine == [name |-> "none", ok |-> TRUE]
\* the request called routine f, and the call succeeded or failed
Called(f, ok) == [name |-> f, ok |-> ok]
\* (variant of the catch that leaves the flag as it is)
FlagKept(flags, f) == flags
\* functionsAvailable.<f> = false, in the catch around the call of routine f
FlagCleared(flags, f) == [flags EXCEPT ![f] = FALSE]

\* no data query was executed by the request
NoDataQ == [ran |-> FALSE, ok |-> FALSE, limit |-> Null, offset |-> Null,
            sortField |-> "none", sortDirection |-> "none",
            placeholders |-> 0, bound |-> 0, matched |-> 0, sorted |-> <<>>]

----------------------------------------------------------------------------
(* server.js: products listing *)

\* the filterClause of getProductsWithPagination, evaluated on one row
ProductFilter(row, search, category, status) ==
    /\ Truthy(search) =>
          \/ LikeContains(row.nombre, search.s)
          \/ LikeContains(row.descripcion, search.s)
          \/ LikeContains(row.categoria, search.s)
    /\ Truthy(category) => row.categoria = category.s
    /\ (status.t = "str" /\ status.s = sActive) => row.activo
    /\ (status.t = "str" /\ status.s = sInactive) => ~row.activo

\* the rows of productos the filter keeps, in table order
FilteredProducts(search, category, status) ==
    SelectSeq(productos, LAMBDA row : ProductFilter(row, search, category, status))

Ids(rows) == [i \in 1..Len(rows) |-> rows[i].id_articulo]

\* getProductsWithPagination: the count query, then the data query with
\* params.push(limit, (page - 1) * limit); any error is caught and answered
\* with { products: [], totalCount: 0 }.  The set of possible outcomes (the
\* order of rows equal on the sort key is the database's choice).
getProductsWithPagination(search, status, category, page, limit, sortField, sortDirection) ==
    LET filtered == FilteredProducts(search, category, status)
        off == Offset(page, limit)
        nFilter == (IF Truthy(search) THEN 1 ELSE 0) + (IF Truthy(category) THEN 1 ELSE 0)
        q == [ran |-> TRUE, ok |-> TRUE, limit |-> limit, offset |-> off,
              sortField |-> sortField, sortDirection |-> sortDirection,
              placeholders |-> nFilter + 2, bound |-> nFilter + 2,
              matched |-> Len(filtered), sorted |-> <<>>]
    IN IF BindsAsBigint(limit) /\ BindsAsBigint(off) /\ sortField \in ProductoColumns
       THEN { [products |-> LimitOffset(srt, limit.v, off.v),
               totalCount |-> Num(Len(filtered)),
               dataQ |-> [q EXCEPT !.sorted = Ids(srt)]] :
              srt \in OrderBy(filtered, sortField, sortDirection) }
       ELSE { [products |-> <<>>, totalCount |-> Num(0), dataQ |-> [q EXCEPT !.ok = FALSE]] }

\* 'Sin categoría'
SinCategoria == <<"S", "i", "n", " ", "c", "a", "t", "e", "g", "o", "r", "í", "a">>

\* x || dflt on a text: the empty text is falsy
OrText(x, dflt) == IF x = <<>> THEN dflt ELSE x

\* formattedProducts: one row as the response carries it
FormatProduct(row) ==
    [id |-> row.id_articulo, name |-> row.nombre,
     description |-> OrText(row.descripcion, <<>>),
     price |-> row.precio, stock |-> row.stock_total,
     category |-> OrText(row.categoria, SinCategoria),
     active |-> row.activo]
FormatProducts(rows) == [i \in 1..Len(rows) |-> FormatProduct(rows[i])]

\* app.get('/api/products') of server.js
GetProducts(q) ==
    /\ req' = [ep |-> "products", q |-> q]
    /\ \E n \in { Normalize("products", q) } :
         /\ norm' = n
         /\ IF n.sortDirection = "threw"
            THEN /\ dataQ' = NoDataQ
                 /\ resp' = PlainResponse(500, <<>>)
            ELSE \E r \in getProductsWithPagination(q.search, q.status, q.category,
                             n.pageNum, n.limitNum, n.sortField, n.sortDirection) :
                   /\ dataQ' = r.dataQ
                   /\ resp' = ListingResponse(FormatProducts(r.products), n.pageNum,
                                  n.limitNum, r.totalCount, n.sortField, n.sortDirection)
    /\ UNCHANGED <<productos, pedidos, nextId, functionsAvailable>>
    /\ routine' = NoRoutine
    /\ UNCHANGED <<memVars, hybVars, inflight>>

----------------------------------------------------------------------------
(* server.js: the products listing as two queries other requests can come between *)

\* (variant of the count query that counts no row)
CountNothing(search, category, status) == 0
\* countQuery of getProductsWithPagination: parseInt(countResult.rows[0].total)
CountQuery(search, category, status) == Len(FilteredProducts(search, category, status))

\* app.get('/api/products') up to the await of the count query: the handler
\* has normalized its parameters and getProductsWithPagination has the total
\* (a sort_order that makes the handler throw ends the request before any query)
BeginListing(q) ==
    /\ ~inflight.active
    /\ ~SortDirectionThrows("products", q)
    /\ inflight' = [active |-> TRUE, q |-> q,
                    totalCount |-> Num(CountQuery(q.search, q.category, q.status))]
    /\ UNCHANGED <<productos, pedidos, nextId, functionsAvailable, req, norm, dataQ, resp,
                   routine>>
    /\ UNCHANGED <<memVars, hybVars>>

\* the rest of that request: the data query on the table as it is now, then
\* the response with the total the count query gave (0 when the data query
\* fails)
FinishListing ==
    /\ inflight.active
    /\ inflight' = [active |-> FALSE, q |-> EmptyQuery, totalCount |-> Num(0)]
    /\ req' = [ep |-> "products", q |-> inflight.q]
    /\ \E n \in { Normalize("products", inflight.q) } :
         /\ norm' = n
         /\ \E r \in getProductsWithPagination(inflight.q.search, inflight.q.status,
                          inflight.q.category, n.pageNum, n.limitNum, n.sortField,
                          n.sortDirection) :
               /\ dataQ' = r.dataQ
               /\ resp' = ListingResponse(FormatProducts(r.products), n.pageNum, n.limitNum,
                              IF r.dataQ.ok THEN inflight.totalCount ELSE Num(0),
                              n.sortField, n.sortDirection)
    /\ routine' = NoRoutine
    /\ UNCHANGED <<productos, pedidos, nextId, functionsAvailable>>
    /\ UNCHANGED <<memVars, hybVars>>

----------------------------------------------------------------------------
(* part_003 lines 457-711: the corrected products listing *)

\* createSampleData: sampleProducts (names, descriptions and prices
\* abbreviated) inserted one after the other with their inventory; inserted
\* tells how many were inserted before an error ended the loop (5 when none
\* did), stocks the sums of the two random quantities of each
createSampleData(inserted, stocks) ==
    LET sampleProducts ==
           << [nombre |-> <<"L", "a">>, descripcion |-> <<"p", "o">>, precio |-> 45,
               categoria |-> <<"E", "l">>],
              [nombre |-> <<"M", "o">>, descripcion |-> <<"e", "r">>, precio |-> 2,
               categoria |-> <<"E", "l">>],
              [nombre |-> <<"T", "e">>, descripcion |-> <<"r", "g">>, precio |-> 4,
               categoria |-> <<"E", "l">>],
              [nombre |-> <<"M", "n">>, descripcion |-> <<"f", "u">>, precio |-> 12,
               categoria |-> <<"E", "l">>],
              [nombre |-> <<"C", "a">>, descripcion |-> <<"a", "l">>, precio |-> 1,
               categoria |-> <<"A", "c">>] >>
    IN [i \in 1..inserted |->
          [id_articulo |-> nextId + i - 1,
           nombre |-> sampleProducts[i].nombre,
           descripcion |-> sampleProducts[i].descripcion,
           categoria |-> sampleProducts[i].categoria,
           precio |-> sampleProducts[i].precio,
           activo |-> TRUE,
           stock_total |-> stocks[i],
           created_at |-> nextId + i - 1]]

\* app.get('/api/products') of part_003, second definition ("versión
\* corregida", meant to replace the first one): the handler counts the rows
\* of productos and calls createSampleData when there is none, then runs the
\* count query and the data query; an error of a query is answered 500
GetProductsFixed(q, inserted, stocks) ==
    /\ req' = [ep |-> "productsFixed", q |-> q]
    /\ routine' = NoRoutine
    /\ \E n \in { Normalize("products", q) } :
         /\ norm' = n
         /\ IF n.sortDirection = "threw"
            THEN /\ dataQ' = NoDataQ
                 /\ resp' = PlainResponse(500, <<>>)
                 /\ UNCHANGED <<productos, nextId>>
            ELSE /\ IF productos = <<>>
                    THEN /\ productos' = createSampleData(inserted, stocks)
                         /\ nextId' = nextId + inserted
                    ELSE UNCHANGED <<productos, nextId>>
                 /\ \E r \in getProductsWithPagination(q.search, q.status, q.category,
                                 n.pageNum, n.limitNum, n.sortField, n.sortDirection)' :
                       /\ dataQ' = r.dataQ
                       /\ resp' = IF r.dataQ.ok
                                  THEN ListingResponse(FormatProducts(r.products), n.pageNum,
                                           n.limitNum, r.totalCount, n.sortField,
                                           n.sortDirection)
                                  ELSE PlainResponse(500, <<>>)
    /\ UNCHANGED <<pedidos, functionsAvailable>>
    /\ UNCHANGED <<memVars, hybVars, inflight>>

----------------------------------------------------------------------------
(* part_002 lines 1-120: products listing through the routine buscar_productos *)

\* rows returned by SELECT * FROM buscar_productos($1, $2, $3): the routine
\* is defined outside the sources at hand; it is taken to keep the rows the
\* generic filter keeps
BuscarProductos(search, category, status) == FilteredProducts(search, category, status)

\* the comparator handed to allProducts.sort: 1 or -1, never 0.  String
\* columns are compared in lower case, the other columns by value
ExtKey(row, field) ==
    IF field \in StringColumns THEN toLowerCase(row[field]) ELSE row[field]
ExtKeyLess(a, b, field) ==
    IF field \in StringColumns
    THEN ExtKey(a, field) # ExtKey(b, field) /\ StrLeq(ExtKey(a, field), ExtKey(b, field))
    ELSE ExtKey(a, field) < ExtKey(b, field)
CompareRows(a, b, field, direction) ==
    IF direction = "DESC"
    THEN (IF ExtKeyLess(a, b, field) THEN 1 ELSE -1)
    ELSE (IF ExtKeyLess(b, a, field) THEN 1 ELSE -1)

\* the arrangements Array.prototype.sort can leave: no pair the comparator
\* orders one way only is left the other way round
RECURSIVE SortArrangements(_, _, _, _)
SortArrangements(rows, idx, field, direction) ==
    IF idx = {} THEN { <<>> }
    ELSE UNION { { <<rows[i]>> \o rest :
                     rest \in SortArrangements(rows, idx \ {i}, field, direction) } :
                 i \in { k \in idx : \A j \in idx \ {k} :
                            ~ ( /\ CompareRows(rows[k], rows[j], field, direction) = 1
                                /\ CompareRows(rows[j], rows[k], field, direction) = -1 ) } }
JsSort(rows, field, direction) == SortArrangements(rows, 1..Len(rows), field, direction)

\* Array.prototype.slice(start, end): a NaN bound counts as 0
JsSlice(rows, start, end) ==
    LET b == IF IsNum(start) THEN start.v ELSE 0
        e == IF IsNum(end) THEN end.v ELSE 0
    IN SubSeq(rows, b + 1, MinInt(Len(rows), e))

\* app.get('/api/products') of part_002 (listing extension).  routineOk is
\* the outcome of the call of buscar_productos; a failed call clears the flag
\* and the request goes on with getProductsWithPagination
GetProductsExt(q, routineOk) ==
    /\ req' = [ep |-> "productsExt", q |-> q]
    /\ \E n \in { Normalize("productsExt", q) } :
         /\ norm' = n
         /\ IF n.sortDirection = "threw"
            THEN /\ dataQ' = NoDataQ
                 /\ resp' = PlainResponse(500, <<>>)
                 /\ routine' = NoRoutine
                 /\ UNCHANGED functionsAvailable
            ELSE IF functionsAvailable.buscar_productos /\ routineOk
            THEN \E srt \in JsSort(BuscarProductos(q.search, q.category, q.status),
                                   n.sortField, n.sortDirection) :
                   /\ dataQ' = [NoDataQ EXCEPT !.ran = TRUE, !.ok = TRUE,
                                   !.sortField = n.sortField,
                                   !.sortDirection = n.sortDirection,
                                   !.placeholders = 3, !.bound = 3,
                                   !.matched = Len(srt), !.sorted = Ids(srt)]
                   /\ resp' = ListingResponse(
                          FormatProducts(JsSlice(srt, n.offset, JsAdd(n.offset, n.limitNum))),
                          n.pageNum, n.limitNum, Num(Len(srt)),
                          n.sortField, n.sortDirection)
                   /\ routine' = Called("buscar_productos", TRUE)
                   /\ UNCHANGED functionsAvailable
            ELSE \E r \in getProductsWithPagination(q.search, q.status, q.category,
                             n.pageNum, n.limitNum, n.sortField, n.sortDirection) :
                   /\ dataQ' = r.dataQ
                   /\ resp' = ListingResponse(FormatProducts(r.products), n.pageNum,
                                  n.limitNum, r.totalCount, n.sortField, n.sortDirection)
                   /\ IF functionsAvailable.buscar_productos
                      THEN /\ routine' = Called("buscar_productos", FALSE)
                           /\ functionsAvailable' =
                                 FlagCleared(functionsAvailable, "buscar_productos")
                      ELSE /\ routine' = NoRoutine
                           /\ UNCHANGED functionsAvailable
    /\ UNCHANGED <<productos, pedidos, nextId>>
    /\ UNCHANGED <<memVars, hybVars, inflight>>

----------------------------------------------------------------------------
(* server.js: orders listing *)

\* the filterClause of GET /api/orders, evaluated on one row
OrderFilter(row, status, customer) ==
    /\ Truthy(status) => row.estado = status.s
    /\ Truthy(customer) => LikeContains(row.cliente_nombre, customer.s)

FilteredOrders(status, customer) ==
    SelectSeq(pedidos, LAMBDA row : OrderFilter(row, status, customer))

OrderIds(rows) == [i \in 1..Len(rows) |-> rows[i].id]

FormatOrder(row) ==
    [id |-> row.id, customer_name |-> row.cliente_nombre, total |-> row.total,
     status |-> row.estado]
FormatOrders(rows) == [i \in 1..Len(rows) |-> FormatOrder(rows[i])]

\* app.get('/api/orders'): a failing query reaches the catch and ends in 500
GetOrders(q) ==
    /\ req' = [ep |-> "orders", q |-> q]
    /\ \E n \in { Normalize("orders", q) } :
         /\ norm' = n
         /\ IF n.sortDirection = "threw"
            THEN /\ dataQ' = NoDataQ
                 /\ resp' = PlainResponse(500, <<>>)
            ELSE \E filtered \in { FilteredOrders(q.status, q.customer) } :
                 LET nFilter == (IF Truthy(q.status) THEN 1 ELSE 0)
                                  + (IF Truthy(q.customer) THEN 1 ELSE 0)
                     dq == [ran |-> TRUE, ok |-> TRUE, limit |-> n.limitNum,
                            offset |-> n.offset, sortField |-> n.sortField,
                            sortDirection |-> n.sortDirection,
                            placeholders |-> nFilter + 2, bound |-> nFilter + 2,
                            matched |-> Len(filtered), sorted |-> <<>>]
                 IN IF /\ BindsAsBigint(n.limitNum) /\ BindsAsBigint(n.offset)
                       /\ n.sortField \in PedidoColumns
                    THEN \E srt \in OrderBy(filtered, n.sortField, n.sortDirection) :
                           /\ dataQ' = [dq EXCEPT !.sorted = OrderIds(srt)]
                           /\ resp' = ListingResponse(
                                  FormatOrders(LimitOffset(srt, n.limitNum.v, n.offset.v)),
                                  n.pageNum, n.limitNum, Num(Len(filtered)),
                                  n.sortField, n.sortDirection)
                    ELSE /\ dataQ' = [dq EXCEPT !.ok = FALSE]
                         /\ resp' = PlainResponse(500, <<>>)
    /\ UNCHANGED <<productos, pedidos, nextId, functionsAvailable>>
    /\ routine' = NoRoutine
    /\ UNCHANGED <<memVars, hybVars, inflight>>

----------------------------------------------------------------------------
(* server.js: low-stock report *)

\* app.get('/api/reports/low-stock').  The count query runs; the text of the
\* data query ends in `LIMIT ${paramIndex} OFFSET ${paramIndex + 1}`, two
\* literals and no placeholder, while params.push(limitNum, offset) binds two
\* more values than the statement has placeholders: PostgreSQL rejects the
\* bind message, the catch answers 500.  limit and offset of dataQ are the
\* numbers the text of the statement carries.
GetLowStock(q) ==
    LET n == Normalize("lowstock", q)
        nFilter == IF Truthy(q.branch) THEN 1 ELSE 0
    IN /\ req' = [ep |-> "lowstock", q |-> q]
       /\ norm' = n
       /\ dataQ' = IF SortDirectionThrows("lowstock", q) THEN NoDataQ
                   ELSE [NoDataQ EXCEPT !.ran = TRUE, !.ok = FALSE,
                            !.limit = Num(nFilter + 1), !.offset = Num(nFilter + 2),
                            !.sortField = n.sortField, !.sortDirection = n.sortDirection,
                            !.placeholders = nFilter, !.bound = nFilter + 2]
       /\ resp' = PlainResponse(500, <<>>)
       /\ UNCHANGED <<productos, pedidos, nextId, functionsAvailable>>
       /\ routine' = NoRoutine
       /\ UNCHANGED <<memVars, hybVars, inflight>>

----------------------------------------------------------------------------
(* server.js: writes on productos *)

\* the names of the sucursales ensureBasicTables inserts (written in ASCII)
Sucursales == {"PRINCIPAL", "SUCURSAL HIGUEY"}

\* stock: parseInt(stock) of formattedProduct in app.post('/api/products')
CreatedStock(body, row) == body.stock

\* formattedProduct of app.post('/api/products'): the inserted row as
\* RETURNING gave it, the stock as the body gave it
FormatCreated(body, row) ==
    [id |-> row.id_articulo, name |-> row.nombre, description |-> row.descripcion,
     price |-> row.precio, stock |-> CreatedStock(body, row), category |-> row.categoria,
     active |-> row.activo]

\* app.post('/api/products'); body = [name, description, price, stock, category, branch]
CreateProduct(body) ==
    /\ Len(productos) < MaxRows
    /\ req' = [ep |-> "createProduct", q |-> EmptyQuery, body |-> body]
    /\ norm' = NoNorm
    /\ dataQ' = NoDataQ
    /\ IF ~Truthy(body.name) \/ ~IsNum(body.price) \/ body.price.v = 0
       THEN /\ resp' = PlainResponse(400, <<>>)
            /\ UNCHANGED <<productos, nextId>>
       ELSE LET row == [id_articulo |-> nextId,
                        nombre |-> body.name.s,
                        descripcion |-> body.description,
                        categoria |-> body.category,
                        precio |-> body.price.v,
                        activo |-> TRUE,
                        stock_total |-> IF body.stock > 0 /\ body.branch \in Sucursales
                                        THEN body.stock ELSE 0,
                        created_at |-> nextId]
            IN /\ productos' = Append(productos, row)
               /\ nextId' = nextId + 1
               /\ resp' = PlainResponse(200, << FormatCreated(body, row) >>)
    /\ UNCHANGED <<pedidos, functionsAvailable>>
    /\ routine' = NoRoutine
    /\ UNCHANGED <<memVars, hybVars, inflight>>

\* app.patch('/api/products/:id/status'): UPDATE ... WHERE id_articulo = parseInt(id)
PatchStatus(id, active) ==
    LET key == ParseIntStr(id)
        hit == { i \in 1..Len(productos) : IsNum(key) /\ productos[i].id_articulo = key.v }
    IN /\ req' = [ep |-> "patchStatus", q |-> EmptyQuery]
       /\ norm' = NoNorm
       /\ dataQ' = NoDataQ
       /\ productos' = [i \in 1..Len(productos) |->
                          IF i \in hit THEN [productos[i] EXCEPT !.activo = active]
                          ELSE productos[i]]
       /\ resp' = IF ~IsNum(key) THEN PlainResponse(500, <<>>)
                  ELSE IF hit = {} THEN PlainResponse(404, <<>>)
                  ELSE PlainResponse(200, <<>>)
       /\ UNCHANGED <<pedidos, nextId, functionsAvailable>>
       /\ routine' = NoRoutine
       /\ UNCHANGED <<memVars, hybVars, inflight>>

----------------------------------------------------------------------------
(* server.js: statistics *)

\* (variant in which the plain queries always come back as after a failure)
StatsAllZero(ok) == [total_productos |-> 0, productos_activos |-> 0]
\* getStatsWithFallback: the product counters computed by plain queries; when
\* a query fails the catch returns zeros
getStatsWithFallback(ok) ==
    IF ok
    THEN [total_productos |-> Len(productos),
          productos_activos |-> Cardinality({ i \in 1..Len(productos) : productos[i].activo })]
    ELSE [total_productos |-> 0, productos_activos |-> 0]

\* SELECT obtener_estadisticas(): the routine is defined outside the sources
\* at hand; it is taken to return the counters the plain queries return
ObtenerEstadisticas == getStatsWithFallback(TRUE)

\* the plain queries of a statistics request, as dataQ records them: ok tells
\* that none of those the request executed failed
GenericQueries(fallbackOk, queryOk) ==
    [NoDataQ EXCEPT !.ran = TRUE, !.ok = fallbackOk /\ queryOk]

\* app.get('/api/health') of server.js.  nowOk is the outcome of SELECT NOW(),
\* whose failure is answered 500; the statistics come from the routine or,
\* when it is not available or its call fails, from getStatsWithFallback
GetHealth(nowOk, routineOk, fallbackOk) ==
    LET viaRoutine == nowOk /\ functionsAvailable.obtener_estadisticas
        stats == IF viaRoutine /\ routineOk THEN ObtenerEstadisticas
                 ELSE getStatsWithFallback(fallbackOk)
    IN /\ req' = [ep |-> "health", q |-> EmptyQuery]
       /\ norm' = NoNorm
       /\ dataQ' = GenericQueries((viaRoutine /\ routineOk) \/ fallbackOk, nowOk)
       /\ routine' = IF viaRoutine THEN Called("obtener_estadisticas", routineOk)
                     ELSE NoRoutine
       /\ functionsAvailable' =
             IF viaRoutine /\ ~routineOk
             THEN FlagCleared(functionsAvailable, "obtener_estadisticas")
             ELSE functionsAvailable
       /\ resp' = IF nowOk
                  THEN PlainResponse(200,
                          << [totalProducts |-> stats.total_productos,
                              activeProducts |-> stats.productos_activos] >>)
                  ELSE PlainResponse(500, <<>>)
       /\ UNCHANGED <<productos, pedidos, nextId>>
       /\ UNCHANGED <<memVars, hybVars, inflight>>

\* app.get('/api/stats').  routineOk is the outcome of the call of
\* obtener_estadisticas (made only while its flag is set), fallbackOk that of
\* the plain queries on productos, queryOk that of the query on pedidos
GetStats(routineOk, fallbackOk, queryOk) ==
    LET viaRoutine == functionsAvailable.obtener_estadisticas
        productStats == IF viaRoutine /\ routineOk THEN ObtenerEstadisticas
                        ELSE getStatsWithFallback(fallbackOk)
    IN /\ req' = [ep |-> "stats", q |-> EmptyQuery]
       /\ norm' = NoNorm
       /\ dataQ' = GenericQueries((viaRoutine /\ routineOk) \/ fallbackOk, queryOk)
       /\ routine' = IF viaRoutine THEN Called("obtener_estadisticas", routineOk)
                     ELSE NoRoutine
       /\ functionsAvailable' =
             IF viaRoutine /\ ~routineOk
             THEN FlagCleared(functionsAvailable, "obtener_estadisticas")
             ELSE functionsAvailable
       /\ resp' = IF queryOk
                  THEN PlainResponse(200,
                          << [totalProducts |-> productStats.total_productos,
                              activeProducts |-> productStats.productos_activos,
                              totalOrders |-> Len(pedidos)] >>)
                  ELSE PlainResponse(500, <<>>)
       /\ UNCHANGED <<productos, pedidos, nextId>>
       /\ UNCHANGED <<memVars, hybVars, inflight>>

----------------------------------------------------------------------------
(* In-memory server (part_002 lines 524-930; part_005 has the same handlers) *)

\* parseFloat / parseInt of a body field that may be omitted
ParseField(f) == IF f.t = "absent" THEN NaN ELSE ParseIntStr(f.s)
\* x || 0
OrZero(x) == IF IsNum(x) THEN x ELSE Num(0)

\* (variant whose caller does not test for -1: splice(-1, 1) and
\* products[-1 + length] then reach the last product)
FindIndexOrLast(id) ==
    LET hit == { i \in 1..Len(products) : ToNumberStr(id) = Num(products[i].id) }
    IN IF hit = {} THEN Len(products) ELSE CHOOSE i \in hit : \A j \in hit : i <= j

\* products.findIndex(p => p.id == id): 0 stands for -1
FindIndex(id) ==
    LET hit == { i \in 1..Len(products) : ToNumberStr(id) = Num(products[i].id) }
    IN IF hit = {} THEN 0 ELSE CHOOSE i \in hit : \A j \in hit : i <= j

MemResponse(code, body) == [code |-> code, body |-> body]

\* the filter of GET /api/products on one product; name.toLowerCase() is
\* called on every product as soon as a search term is given
MemFilter(p, search, status) ==
    /\ Truthy(search) =>
          \/ includes(toLowerCase(p.name.s), toLowerCase(search.s))
          \/ (Truthy(p.description) /\ includes(toLowerCase(p.description.s), toLowerCase(search.s)))
          \/ (Truthy(p.category) /\ includes(toLowerCase(p.category.s), toLowerCase(search.s)))
    /\ (status.t = "str" /\ status.s = sActive) => p.active
    /\ (status.t = "str" /\ status.s = sInactive) => ~p.active

\* app.get('/api/products'): a product without name makes the scan throw,
\* which the error middleware answers with 500
MemGetProducts(search, status) ==
    /\ memReq' = [op |-> "list", id |-> <<>>, search |-> search, status |-> status]
    /\ memResp' =
         IF Truthy(search) /\ \E i \in 1..Len(products) : products[i].name.t = "absent"
         THEN MemResponse(500, <<>>)
         ELSE MemResponse(200, SelectSeq(products, LAMBDA p : MemFilter(p, search, status)))
    /\ UNCHANGED <<products, clock>>
    /\ UNCHANGED <<relVars, hybVars>>

\* app.post('/api/products'); Date.now() may return the same value twice
MemCreateProduct(body, tick) ==
    /\ Len(products) < MaxProducts
    /\ clock + tick <= 10 + MaxClock
    /\ LET newProduct ==
             [id |-> clock + tick,
              name |-> body.name,
              description |-> WithDefault(body.description, <<>>),
              price |-> ParseField(body.price),
              stock |-> ParseField(body.stock),
              stock_by_branch |-> [b \in {body.branch} |-> ParseField(body.stock)],
              category |-> WithDefault(body.category, <<>>),
              branch |-> body.branch,
              active |-> TRUE]
       IN /\ products' = Append(products, newProduct)
          /\ memResp' = MemResponse(200, <<newProduct>>)
    /\ clock' = clock + tick
    /\ memReq' = [op |-> "create", id |-> <<>>]
    /\ UNCHANGED <<relVars, hybVars>>

\* app.put('/api/products/:id')
MemUpdateProduct(id, body) ==
    LET index == FindIndex(id)
    IN /\ memReq' = [op |-> "update", id |-> id]
       /\ IF index = 0
          THEN /\ memResp' = MemResponse(404, <<>>)
               /\ UNCHANGED products
          ELSE /\ products' = [products EXCEPT ![index] =
                     [@ EXCEPT !.name = body.name,
                               !.description = body.description,
                               !.price = ParseField(body.price),
                               !.stock = ParseField(body.stock),
                               !.branch = body.branch,
                               !.category = WithDefault(body.category, <<>>)]]
               /\ memResp' = MemResponse(200, <<products'[index]>>)
       /\ UNCHANGED clock
       /\ UNCHANGED <<relVars, hybVars>>

\* app.patch('/api/products/:id/status')
MemPatchStatus(id, active) ==
    LET index == FindIndex(id)
    IN /\ memReq' = [op |-> "status", id |-> id]
       /\ IF index = 0
          THEN /\ memResp' = MemResponse(404, <<>>)
               /\ UNCHANGED products
          ELSE /\ products' = [products EXCEPT ![index].active = active]
               /\ memResp' = MemResponse(200, <<products'[index]>>)
       /\ UNCHANGED clock
       /\ UNCHANGED <<relVars, hybVars>>

\* app.put('/api/products/:id/stock')
MemUpdateStock(id, stock_principal, stock_higuey) ==
    LET productIndex == FindIndex(id)
        principal == OrZero(ParseField(stock_principal))
        higuey == OrZero(ParseField(stock_higuey))
    IN /\ memReq' = [op |-> "stock", id |-> id]
       /\ IF productIndex = 0
          THEN /\ memResp' = MemResponse(404, <<>>)
               /\ UNCHANGED products
          ELSE /\ products' = [products EXCEPT ![productIndex] =
                     [@ EXCEPT !.stock = JsAdd(principal, higuey),
                               !.stock_by_branch =
                                   [b \in {"Principal", "Higuey"} |->
                                      IF b = "Principal" THEN principal ELSE higuey]]]
               /\ memResp' = MemResponse(200, <<products'[productIndex]>>)
       /\ UNCHANGED clock
       /\ UNCHANGED <<relVars, hybVars>>

\* (variant without the delete count: splice(index) drops the rest of the array)
SpliceRest(seq, index) == SubSeq(seq, 1, index - 1)
\* products.splice(index, 1)
Splice(seq, index) == SubSeq(seq, 1, index - 1) \o SubSeq(seq, index + 1, Len(seq))

\* app.delete('/api/products/:id')
MemDeleteProduct(id) ==
    LET index == FindIndex(id)
    IN /\ memReq' = [op |-> "delete", id |-> id]
       /\ IF index = 0
          THEN /\ memResp' = MemResponse(404, <<>>)
               /\ UNCHANGED products
          ELSE /\ products' = Splice(products, index)
               /\ memResp' = MemResponse(200, <<>>)
       /\ UNCHANGED clock
       /\ UNCHANGED <<relVars, hybVars>>

----------------------------------------------------------------------------
(* Hybrid server (Dockerfile lines 40-699): PostgreSQL with in-memory fallback *)

\* let memoryProducts = [...] (names and descriptions abbreviated)
SeedMemoryProducts ==
    << [id |-> 1, name |-> <<"L", "a">>, description |-> <<"u", "l">>,
        price |-> Num(12), stock |-> Num(15), category |-> <<"E", "l">>, branch |-> "Principal"],
       [id |-> 2, name |-> <<"i", "P">>, description |-> <<"S", "m">>,
        price |-> Num(9), stock |-> Num(25), category |-> <<"E", "l">>, branch |-> "Norte"],
       [id |-> 3, name |-> <<"S", "a">>, description |-> <<"S", "m">>,
        price |-> Num(8), stock |-> Num(30), category |-> <<"E", "l">>, branch |-> "Sur"] >>

HybResponse(code, body) == [code |-> code, body |-> body]

\* the filter of the in-memory branch of GET /api/products
HybMemoryFilter(p, search) ==
    Truthy(search) =>
       \/ includes(toLowerCase(p.name), toLowerCase(search.s))
       \/ (p.description # <<>> /\ includes(toLowerCase(p.description), toLowerCase(search.s)))

\* WHERE p.name ILIKE $1 OR p.description ILIKE $1 with `%${search}%`
HybIlike(row, search) ==
    Truthy(search) =>
       \/ LikeContains(row.name, search.s)
       \/ LikeContains(row.description, search.s)

\* ORDER BY p.created_at DESC: the rows were inserted one statement after the
\* other, so the latest comes first
Reverse(rows) == [i \in 1..Len(rows) |-> rows[Len(rows) + 1 - i]]

\* testDatabaseConnection, called by startServer only.  connectOk is the
\* outcome of pool.connect(), queryOk that of client.query('SELECT NOW()');
\* client.release() follows the query inside the try, so it is skipped when
\* the query throws
TestDatabaseConnection(connectOk, queryOk) ==
    /\ hybPhase = "boot"
    /\ hybPhase' = "probed"
    /\ dbConnected' = (connectOk /\ queryOk)
    /\ hybReq' = [op |-> "probe", search |-> Absent]
    /\ hybQuery' = IF connectOk /\ queryOk THEN "ok" ELSE "failed"
    /\ clients' = IF connectOk /\ ~queryOk THEN clients + 1 ELSE clients
    /\ UNCHANGED <<memoryProducts, pgProducts, hybResp>>
    /\ UNCHANGED <<relVars, memVars>>

\* initDatabase followed by app.listen: the tables are created, the memory
\* data is copied into empty tables; an error clears dbConnected
InitDatabase(ok) ==
    /\ hybPhase = "probed"
    /\ hybPhase' = "serving"
    /\ hybReq' = [op |-> "init", search |-> Absent]
    /\ IF ~dbConnected
       THEN /\ hybQuery' = "none"
            /\ UNCHANGED <<dbConnected, pgProducts>>
       ELSE IF ok
       THEN /\ hybQuery' = "ok"
            /\ pgProducts' = IF pgProducts = <<>>
                             THEN [i \in 1..Len(memoryProducts) |->
                                     [memoryProducts[i] EXCEPT !.id = i]]
                             ELSE pgProducts
            /\ UNCHANGED dbConnected
       ELSE /\ hybQuery' = "failed"
            /\ dbConnected' = FALSE
            /\ UNCHANGED pgProducts
    /\ UNCHANGED <<memoryProducts, hybResp>>
    /\ UNCHANGED <<relVars, memVars, clients>>

\* (variant that takes the outcome of the query as the new flag)
HealthFlagFollowsQuery(connected, queryOk) == queryOk
\* dbConnected after GET /api/health: the query runs only while the flag is
\* set, and its failure clears the flag
HealthFlag(connected, queryOk) == connected /\ queryOk

\* app.get('/api/health'): always 200; database tells the flag as it was when
\* the request came in
HybHealth(queryOk) ==
    /\ hybPhase = "serving"
    /\ hybReq' = [op |-> "health", search |-> Absent]
    /\ hybQuery' = IF ~dbConnected THEN "none" ELSE IF queryOk THEN "ok" ELSE "failed"
    /\ dbConnected' = HealthFlag(dbConnected, queryOk)
    /\ hybResp' = HybResponse(200, << [database |-> dbConnected] >>)
    /\ UNCHANGED <<memoryProducts, pgProducts, hybPhase>>
    /\ UNCHANGED <<relVars, memVars, clients>>

\* app.get('/api/products'): a failed query is caught and answered with
\* res.json(memoryProducts)
HybGetProducts(search, queryOk) ==
    /\ hybPhase = "serving"
    /\ hybReq' = [op |-> "list", search |-> search]
    /\ IF dbConnected
       THEN IF queryOk
            THEN /\ hybQuery' = "ok"
                 /\ hybResp' = HybResponse(200,
                        Reverse(SelectSeq(pgProducts, LAMBDA row : HybIlike(row, search))))
            ELSE /\ hybQuery' = "failed"
                 /\ hybResp' = HybResponse(200, memoryProducts)
       ELSE /\ hybQuery' = "none"
            /\ hybResp' = HybResponse(200,
                   SelectSeq(memoryProducts, LAMBDA p : HybMemoryFilter(p, search)))
    /\ UNCHANGED <<dbConnected, memoryProducts, pgProducts, hybPhase>>
    /\ UNCHANGED <<relVars, memVars, clients>>

\* app.post('/api/products'); now is the reading of Date.now(), no earlier
\* than the reading an existing product got its id from
HybCreateProduct(body, queryOk, now) ==
    /\ hybPhase = "serving"
    /\ Len(memoryProducts) < MaxHybrid /\ Len(pgProducts) < MaxHybrid
    /\ \A i \in 1..Len(memoryProducts) : memoryProducts[i].id <= now
    /\ hybReq' = [op |-> "create", search |-> Absent]
    /\ LET price == ParseField(body.price)
           stock == ParseField(body.stock)
           product == [id |-> now, name |-> body.name.s,
                       description |-> WithDefault(body.description, <<>>).s,
                       price |-> price, stock |-> stock,
                       category |-> WithDefault(body.category, <<>>).s,
                       branch |-> body.branch]
       IN IF ~Truthy(body.name) \/ ~Truthy(body.price) \/ ~Truthy(body.stock)
             \/ body.branch = "undefined"
          THEN /\ hybQuery' = "none"
               /\ hybResp' = HybResponse(400, <<>>)
               /\ UNCHANGED <<memoryProducts, pgProducts>>
          ELSE IF dbConnected
          THEN IF queryOk
               THEN /\ hybQuery' = "ok"
                    /\ pgProducts' = Append(pgProducts,
                                        [product EXCEPT !.id = Len(pgProducts) + 1])
                    /\ hybResp' = HybResponse(200,
                                     << [product EXCEPT !.id = Len(pgProducts) + 1] >>)
                    /\ UNCHANGED memoryProducts
               ELSE /\ hybQuery' = "failed"
                    /\ hybResp' = HybResponse(500, <<>>)
                    /\ UNCHANGED <<memoryProducts, pgProducts>>
          ELSE /\ hybQuery' = "none"
               /\ memoryProducts' = Append(memoryProducts, product)
               /\ hybResp' = HybResponse(200, <<product>>)
               /\ UNCHANGED pgProducts
    /\ UNCHANGED <<dbConnected, hybPhase>>
    /\ UNCHANGED <<relVars, memVars, clients>>

----------------------------------------------------------------------------
(* Initial state *)

\* rows present in the database when the server starts
SeedProductos ==
    << [id_articulo |-> 1, nombre |-> <<"L", "a">>, descripcion |-> <<"d", "e", "l">>,
        categoria |-> <<"E", "l">>, precio |-> 7, activo |-> TRUE,
        stock_total |-> 8, created_at |-> 1],
       [id_articulo |-> 2, nombre |-> <<"T", "e">>, descripcion |-> <<"M", "o", "x">>,
        categoria |-> <<"H", "o">>, precio |-> 3, activo |-> FALSE,
        stock_total |-> 0, created_at |-> 2] >>

SeedPedidos ==
    << [id |-> 1, cliente_nombre |-> <<"J", "u">>, total |-> 9,
        estado |-> sCompleted, created_at |-> 1],
       [id |-> 2, cliente_nombre |-> <<"A", "n">>, total |-> 4,
        estado |-> sPending, created_at |-> 2],
       [id |-> 3, cliente_nombre |-> <<"j", "u">>, total |-> 4,
        estado |-> sPending, created_at |-> 3] >>

\* let products = [...] of the in-memory server
SeedProducts ==
    << [id |-> 1, name |-> Str(<<"L", "a">>), description |-> Str(<<"p", "o">>),
        price |-> Num(9), stock |-> Num(8),
        stock_by_branch |-> [b \in {"Principal", "Higuey"} |->
                               IF b = "Principal" THEN Num(5) ELSE Num(3)],
        category |-> Str(<<"E", "l">>), branch |-> "Principal", active |-> TRUE],
       [id |-> 2, name |-> Str(<<"M", "o">>), description |-> Str(<<"e", "r">>),
        price |-> Num(1), stock |-> Num(30),
        stock_by_branch |-> [b \in {"Principal", "Higuey"} |->
                               IF b = "Principal" THEN Num(18) ELSE Num(12)],
        category |-> Str(<<"E", "l">>), branch |-> "Principal", active |-> TRUE],
       [id |-> 3, name |-> Str(<<"T", "e">>), description |-> Str(<<"r", "g">>),
        price |-> Num(3), stock |-> Num(15),
        stock_by_branch |-> [b \in {"Principal", "Higuey"} |->
                               IF b = "Principal" THEN Num(8) ELSE Num(7)],
        category |-> Str(<<"E", "l">>), branch |-> "Principal", active |-> FALSE] >>

\* the state in which the servers start serving, the table productos
\* holding the given rows
InitWith(rows) ==
    /\ productos = rows
    /\ pedidos = SeedPedidos
    /\ nextId = Len(rows) + 1
    /\ functionsAvailable = [f \in Routines |-> TRUE]
    /\ routine = NoRoutine
    /\ inflight = [active |-> FALSE, q |-> EmptyQuery, totalCount |-> Num(0)]
    /\ req = [ep |-> "none", q |-> EmptyQuery]
    /\ norm = NoNorm
    /\ dataQ = NoDataQ
    /\ resp = PlainResponse(0, <<>>)
    /\ products = SeedProducts
    /\ clock = 10
    /\ memReq = [op |-> "none", id |-> <<>>]
    /\ memResp = MemResponse(0, <<>>)
    /\ dbConnected = FALSE
    /\ memoryProducts = SeedMemoryProducts
    /\ pgProducts = <<>>
    /\ hybPhase = "boot"
    /\ hybReq = [op |-> "none", search |-> Absent]
    /\ hybQuery = "none"
    /\ hybResp = HybResponse(0, <<>>)
    /\ clients = 0

Init == InitWith(SeedProductos)

----------------------------------------------------------------------------
(* Requests the model sends *)

PageInputs == { Absent, Str(<<"0">>), Str(<<"-", "1">>), Str(<<"2">>), Str(<<"3">>),
                Str(<<"a", "b", "c">>) }
LimitInputs == { Absent, Str(<<"0">>), Str(<<"2">>), Str(<<"1", "0", "1">>),
                 Str(<<"a", "b", "c">>) }
SortByInputs == { AbsentName, Str("precio"), Str("total"), Str("bogus") }
SortOrderInputs == { Absent, Str(<<"d", "e", "s", "c">>), Str(<<"a", "s", "c">>),
                     Str(<<"f", "o", "o">>), Arr(<<"a", "s", "c", ",", "a", "s", "c">>) }
SearchInputs == { Absent, Str(<<"m", "o">>), Str(<<"_">>), Str(<<"l", "a", "s">>),
                  Str(<<"z", "u">>) }
ProductStatusInputs == { Absent, Str(sActive), Str(sInactive) }
CategoryInputs == { Absent, Str(<<"E", "l">>) }
OrderStatusInputs == { Absent, Str(sPending), Str(sActive) }
CustomerInputs == { Absent, Str(<<"J", "U">>) }
BranchInputs == { Absent, Str(<<"P">>) }

\* pagination: one parameter at a time, the pages 2 and 3 of the page sizes
\* 1 and 2, and both parameters malformed
PagingQueries ==
    { [EmptyQuery EXCEPT !.page = p, !.limit = l] :
        <<p, l>> \in { x \in PageInputs \X LimitInputs :
                         \/ x[1] = Absent
                         \/ x[2] = Absent
                         \/ x[1] \in {Str(<<"2">>), Str(<<"3">>)} /\ x[2] \in {Str(<<"0">>), Str(<<"2">>)}
                         \/ x[1] = Str(<<"a", "b", "c">>) /\ x[2] = Str(<<"a", "b", "c">>) } }
\* sorting: one parameter at a time, and a descending sort on each listed field
SortingQueries ==
    { [EmptyQuery EXCEPT !.sort_by = b, !.sort_order = o] :
        <<b, o>> \in { x \in SortByInputs \X SortOrderInputs :
                         \/ x[1] = AbsentName
                         \/ x[2] = Absent
                         \/ x[2] = Str(<<"d", "e", "s", "c">>) } }
\* filters: one at a time, and status with category (no product is both
\* inactive and of category El); each on the first and on the second page
ProductFilterQueries ==
    { [EmptyQuery EXCEPT !.search = f[1], !.status = f[2], !.category = f[3], !.page = p] :
        f \in { x \in SearchInputs \X ProductStatusInputs \X CategoryInputs :
                  \/ x[2] = Absent /\ x[3] = Absent
                  \/ x[1] = Absent },
        p \in {Absent, Str(<<"2">>)} }
OrderFilterQueries ==
    { [EmptyQuery EXCEPT !.status = st, !.customer = c, !.page = p] :
        st \in OrderStatusInputs, c \in CustomerInputs, p \in {Absent, Str(<<"2">>)} }
BranchQueries == { [EmptyQuery EXCEPT !.branch = b] : b \in BranchInputs }

ProductQueries == PagingQueries \cup SortingQueries \cup ProductFilterQueries
OrderQueries == PagingQueries \cup SortingQueries \cup OrderFilterQueries
LowStockQueries == PagingQueries \cup SortingQueries \cup BranchQueries

\* bodies of POST /api/products (server.js)
CreateBodies ==
    { [name |-> Str(<<"M", "o">>), description |-> <<"l", "a", "s">>, price |-> Num(5),
       stock |-> 4, category |-> <<"E", "l">>, branch |-> "PRINCIPAL"],
      [name |-> Absent, description |-> <<>>, price |-> Num(3),
       stock |-> 0, category |-> <<>>, branch |-> "PRINCIPAL"],
      [name |-> Str(<<"Z", "u">>), description |-> <<"d", "o">>, price |-> Num(3),
       stock |-> 2, category |-> <<"H", "o">>, branch |-> "NORTE"] }

\* :id values of the relational PATCH
PatchIds == { <<"1">>, <<"9">>, <<"x">> }

\* bodies of POST and PUT /api/products (in-memory server); {} omits every field
MemBodies ==
    { [name |-> Str(<<"M", "o">>), description |-> Str(<<"l", "a">>),
       price |-> Str(<<"5">>), stock |-> Str(<<"4">>),
       category |-> Str(<<"E", "l">>), branch |-> "Principal"],
      [name |-> Absent, description |-> Absent, price |-> Absent, stock |-> Absent,
       category |-> Absent, branch |-> "undefined"] }

\* :id values of the in-memory server: a seed product, a created product,
\* identifiers no product has
MemIds == { <<"1">>, <<"1", "0">>, <<"9">>, <<"x">> }
\* :id values that reach two seed products and a created product
MemStoredIds == { <<"1">>, <<"2">>, <<"1", "0">> }
\* bodies of PUT /api/products/:id/stock: both amounts, one amount, none
StockInputs == { <<Str(<<"2">>), Str(<<"1">>)>>, <<Str(<<"2">>), Absent>>, <<Absent, Absent>> }
MemSearchInputs == { Absent, Str(<<"M", "O">>) }
\* status values of the in-memory listing: the last is none of the two it knows
MemStatusInputs == ProductStatusInputs \cup { Str(sPending) }

\* hybrid server: search terms, bodies of POST /api/products (the second
\* omits stock, the third the description), readings of Date.now()
HybSearchInputs == { Absent, Str(<<"s", "M">>), Str(<<"l", "a">>) }
HybBodies ==
    { [name |-> Str(<<"L", "a", "s">>), description |-> Str(<<"m", "o">>),
       price |-> Str(<<"5">>), stock |-> Str(<<"4">>),
       category |-> Str(<<"E", "l">>), branch |-> "Norte"],
      [name |-> Str(<<"M", "o">>), description |-> Absent,
       price |-> Str(<<"5">>), stock |-> Absent,
       category |-> Absent, branch |-> "Norte"],
      [name |-> Str(<<"S", "m">>), description |-> Absent,
       price |-> Str(<<"7">>), stock |-> Str(<<"2">>),
       category |-> Absent, branch |-> "Sur"] }
HybNow == { 20, 21 }

----------------------------------------------------------------------------
(* Specifications *)

\* server.js
Next ==
    \/ \E q \in ProductQueries : GetProducts(q)
    \/ \E q \in OrderQueries : GetOrders(q)
    \/ \E q \in LowStockQueries : GetLowStock(q)
    \/ \E body \in CreateBodies : CreateProduct(body)
    \/ \E id \in PatchIds, active \in BOOLEAN : PatchStatus(id, active)

Spec == Init /\ [][Next]_vars

\* server.js with the products listing of part_002 (lines 1-120) in place
NextExt ==
    \/ \E q \in ProductQueries,
            routineOk \in (IF functionsAvailable.buscar_productos THEN BOOLEAN ELSE {FALSE}) :
          GetProductsExt(q, routineOk)
    \/ \E routineOk \in (IF functionsAvailable.obtener_estadisticas THEN BOOLEAN
                          ELSE {FALSE}),
            fallbackOk \in BOOLEAN, queryOk \in BOOLEAN :
          GetStats(routineOk, fallbackOk, queryOk)
    \/ \E nowOk \in BOOLEAN,
            routineOk \in (IF functionsAvailable.obtener_estadisticas THEN BOOLEAN
                          ELSE {FALSE}),
            fallbackOk \in BOOLEAN :
          GetHealth(nowOk, routineOk, fallbackOk)
    \/ \E body \in CreateBodies : CreateProduct(body)
    \/ \E id \in PatchIds, active \in BOOLEAN : PatchStatus(id, active)

SpecExt == Init /\ [][NextExt]_vars

\* the in-memory server
NextMem ==
    \/ \E search \in MemSearchInputs, status \in MemStatusInputs :
          MemGetProducts(search, status)
    \/ \E body \in MemBodies, tick \in {0, 1} : MemCreateProduct(body, tick)
    \/ \E id \in MemIds, body \in MemBodies : MemUpdateProduct(id, body)
    \/ \E id \in MemIds, active \in BOOLEAN : MemPatchStatus(id, active)
    \/ \E id \in MemIds, st \in StockInputs : MemUpdateStock(id, st[1], st[2])
    \/ \E id \in MemIds : MemDeleteProduct(id)

SpecMem == Init /\ [][NextMem]_vars

\* the in-memory server with room for two new products: two seed products
\* can be deleted, and the writes address stored products
NextMemIds ==
    \/ \E body \in MemBodies, tick \in {0, 1} : MemCreateProduct(body, tick)
    \/ \E id \in MemStoredIds : MemDeleteProduct(id)
    \/ \E id \in MemStoredIds, active \in BOOLEAN : MemPatchStatus(id, active)
    \/ \E id \in { <<"1", "0">> }, body \in MemBodies : MemUpdateProduct(id, body)
    \/ \E id \in { <<"1", "0">> }, st \in StockInputs : MemUpdateStock(id, st[1], st[2])

SpecMemIds == Init /\ [][NextMemIds]_vars

\* server.js with the two queries of a products listing as separate steps
NextTx ==
    \/ \E q \in ProductFilterQueries : BeginListing(q)
    \/ FinishListing
    \/ \E body \in CreateBodies : CreateProduct(body)
    \/ \E id \in PatchIds, active \in BOOLEAN : PatchStatus(id, active)

SpecTx == Init /\ [][NextTx]_vars

\* the server with the corrected products listing, started on an empty
\* table productos; the sample products all get the smallest or all the
\* largest stock the two random quantities can add up to
NextFix ==
    \/ \E q \in { x \in ProductFilterQueries \cup SortingQueries :
                     x.search = Absent /\ x.status = Absent /\ x.sort_by = AbsentName },
            inserted \in IF productos = <<>> THEN 0..5 ELSE {0},
            stock \in IF productos = <<>> THEN {8, 41} ELSE {8} :
          GetProductsFixed(q, inserted, [i \in 1..5 |-> stock])
    \/ \E body \in CreateBodies : CreateProduct(body)
    \/ \E id \in PatchIds, active \in BOOLEAN : PatchStatus(id, active)

SpecFix == InitWith(<<>>) /\ [][NextFix]_vars

\* the hybrid server
NextHyb ==
    \/ \E connectOk \in BOOLEAN, queryOk \in BOOLEAN : TestDatabaseConnection(connectOk, queryOk)
    \/ \E ok \in BOOLEAN : InitDatabase(ok)
    \/ \E queryOk \in BOOLEAN : HybHealth(queryOk)
    \/ \E search \in HybSearchInputs, queryOk \in BOOLEAN : HybGetProducts(search, queryOk)
    \/ \E body \in HybBodies, queryOk \in BOOLEAN, now \in HybNow :
          HybCreateProduct(body, queryOk, now)

SpecHyb == Init /\ [][NextHyb]_vars

----------------------------------------------------------------------------
(* Vocabulary of the properties *)

ListingEndpoints == {"products", "orders", "lowstock"}

\* the text is a decimal integer, with an optional minus sign
AllDigits(s) == Len(s) > 0 /\ \A i \in 1..Len(s) : IsDigit(s[i])
IsIntegerText(s) == AllDigits(s) \/ (Len(s) > 1 /\ s[1] = "-" /\ AllDigits(Tail(s)))
IntegerValue(s) == IF s[1] = "-" THEN 0 - DigitsValue(Tail(s)) ELSE DigitsValue(s)
\* the text holds no digit at all
NonNumericText(s) == \A i \in 1..Len(s) : ~IsDigit(s[i])

\* the least k with k * d >= n
LeastMultiple(n, d) == CHOOSE k \in 0..n : k * d >= n /\ (k = 0 \/ (k - 1) * d < n)

\* the last request was a listing that was answered with the envelope
ListingAnswered(eps) == req.ep \in eps /\ resp.code = 200

----------------------------------------------------------------------------
(* Properties of the paginated listings (server.js) *)

\* C1: a supplied page that is an integer <= 0 or is not a number is
\* normalized to page 1, and a successful response reports current_page 1.
\* The handlers do not do so for a non-numeric page: Math.max(1, NaN) is NaN.
C1_PageFallsBackToOne ==
    (req.ep \in ListingEndpoints /\ req.q.page.t = "str"
       /\ \/ NonNumericText(req.q.page.s)
          \/ (IsIntegerText(req.q.page.s) /\ IntegerValue(req.q.page.s) <= 0))
    => /\ norm.pageNum = Num(1)
       /\ resp.code = 200 => resp.current_page = Num(1)

\* C2: a supplied limit above 100 is normalized to 100; a limit below 1 or
\* not a number is normalized to the default of the endpoint (10 for products
\* and orders, 20 for the report); a limit in 1..100 is kept.  The handlers
\* answer limit=0 with 1 and a non-numeric limit with NaN.
C2_LimitClampedOrDefault ==
    (req.ep \in ListingEndpoints /\ req.q.limit.t = "str")
    => LET l == req.q.limit.s
           dflt == IF req.ep = "lowstock" THEN 20 ELSE 10
       IN /\ (IsIntegerText(l) /\ IntegerValue(l) > 100) => norm.limitNum = Num(100)
          /\ (IsIntegerText(l) /\ IntegerValue(l) \in 1..100)
                => norm.limitNum = Num(IntegerValue(l))
          /\ (NonNumericText(l) \/ (IsIntegerText(l) /\ IntegerValue(l) < 1))
                => norm.limitNum = Num(dflt)

\* C3: a products or orders listing whose page, limit, sort_by and sort_order
\* are single values, malformed or not, is answered with the envelope built
\* from the normalized values and never with HTTP 500.  The orders listing
\* answers a non-numeric page or limit with 500.
C3_MalformedInputNeverFails ==
    (req.ep \in {"products", "orders"} /\ req.q.sort_order.t # "arr")
    => /\ resp.code = 200
       /\ resp.current_page = Json(norm.pageNum)
       /\ resp.per_page = Json(norm.limitNum)

\* C4: a sort_by outside the allow-list of the endpoint (or none) is replaced
\* by the default sort field of the endpoint, an allowed one is kept; the
\* field so obtained is the one the data query orders by and the one the
\* response echoes in filters.sort_by.
C4_SortFieldAllowListed ==
    req.ep \in {"products", "orders"}
    => LET raw == req.q.sort_by
           allowed == raw.t = "str" /\ raw.s \in ValidSortFields(req.ep)
       IN /\ allowed => norm.sortField = raw.s
          /\ ~allowed => norm.sortField = DefaultSortField(req.ep)
          /\ dataQ.ran => dataQ.sortField = norm.sortField
          /\ resp.code = 200 => resp.sort_by = norm.sortField

\* C4, its case: the orders listing asked to sort by a products column
C4_Witness ==
    /\ ListingAnswered({"orders"})
    /\ req.q.sort_by = Str("precio")
    /\ dataQ.ran /\ dataQ.sortField = "created_at"
    /\ resp.sort_by = "created_at"

\* C5: a supplied sort_order equal to ASC or DESC in any letter case gives
\* that direction; any other supplied text gives the default direction of the
\* endpoint (ASC for products and the report, DESC for orders).  The orders
\* listing gives ASC for any text other than DESC.
C5_SortOrderNormalized ==
    (req.ep \in ListingEndpoints /\ req.q.sort_order.t = "str")
    => LET o == toUpperCase(req.q.sort_order.s)
       IN norm.sortDirection =
             IF o = sASC THEN "ASC"
             ELSE IF o = sDESC THEN "DESC"
             ELSE IF req.ep = "orders" THEN "DESC" ELSE "ASC"

\* C6: in every listing response total_pages is ceil(total_items / per_page);
\* when total_items is 0, total_pages is 0 and has_next_page and has_prev_page
\* are false.  A request for page 2 of an empty result is answered with
\* has_prev_page true, and a non-numeric limit with total_pages null.
C6_TotalPagesAndEmptyResult ==
    ListingAnswered(ListingEndpoints)
    => /\ IsNum(resp.total_items) /\ IsNum(resp.per_page) /\ resp.per_page.v > 0
       /\ resp.total_pages = Num(LeastMultiple(resp.total_items.v, resp.per_page.v))
       /\ resp.total_items = Num(0)
             => /\ resp.total_pages = Num(0)
                /\ ~resp.has_next_page
                /\ ~resp.has_prev_page

\* C7: in every listing response has_next_page is true exactly when
\* current_page < total_pages and has_prev_page exactly when current_page > 1
\* (a null value compares false); next_page is current_page + 1 when
\* has_next_page and null otherwise, prev_page is current_page - 1 when
\* has_prev_page and null otherwise.
C7_NextPrevConsistent ==
    ListingAnswered(ListingEndpoints)
    => LET cur == resp.current_page
           tot == resp.total_pages
       IN /\ resp.has_next_page <=> (IsNum(cur) /\ IsNum(tot) /\ cur.v < tot.v)
          /\ resp.has_prev_page <=> (IsNum(cur) /\ cur.v > 1)
          /\ resp.next_page = IF resp.has_next_page THEN Num(cur.v + 1) ELSE Null
          /\ resp.prev_page = IF resp.has_prev_page THEN Num(cur.v - 1) ELSE Null

\* C7, its case: page 2 of 3 of the products, one product per page
C7_Witness ==
    /\ ListingAnswered({"products"})
    /\ resp.current_page = Num(2) /\ resp.total_pages = Num(3)
    /\ resp.has_next_page /\ resp.has_prev_page
    /\ resp.next_page = Num(3) /\ resp.prev_page = Num(1)

\* the row of productos with the identifier
ProductRow(id) == CHOOSE row \in { productos[i] : i \in 1..Len(productos) } :
                     row.id_articulo = id

\* b does not have to come before a: under the order of the database or
\* under the order of the comparator of the listing
KeysInOrder(a, b, field, direction) ==
    \/ OrderedPair(a, b, field, direction)
    \/ ~ IF direction = "DESC" THEN ExtKeyLess(a, b, field) ELSE ExtKeyLess(b, a, field)

\* C8: for a normalized page p and page size s, the products listing returns
\* min(s, max(0, N - (p-1)*s)) records, N being the number of products that
\* match the filter, and they are the records at the positions
\* [(p-1)*s, (p-1)*s + s) of the filtered, sorted sequence.
C8_PageWindow ==
    (ListingAnswered({"productsExt"}) /\ IsNum(norm.pageNum) /\ IsNum(norm.limitNum))
    => LET p == norm.pageNum.v
           s == norm.limitNum.v
           matching == FilteredProducts(req.q.search, req.q.category, req.q.status)
           N == Len(matching)
           first == (p - 1) * s
           count == MinInt(s, MaxInt(0, N - first))
           sorted == dataQ.sorted
       IN /\ Len(resp.records) = count
          /\ Len(sorted) = N
          /\ { sorted[i] : i \in 1..N } = { matching[i].id_articulo : i \in 1..N }
          /\ \A i \in 1..N, j \in 1..N :
                i < j => KeysInOrder(ProductRow(sorted[i]), ProductRow(sorted[j]),
                                     norm.sortField, norm.sortDirection)
          /\ \A i \in 1..count : resp.records[i].id = sorted[first + i]

\* C8, its case: three products, page size 2, page 2 holds the remainder
C8_Witness ==
    /\ ListingAnswered({"productsExt"})
    /\ norm.pageNum = Num(2) /\ norm.limitNum = Num(2)
    /\ Len(productos) = 3 /\ dataQ.matched = 3
    /\ Len(resp.records) = 1
    /\ resp.records[1].id = dataQ.sorted[3]

\* C9: for every combination of search, category and status, total_items of
\* the products listing is the number of products that satisfy the filter the
\* page was selected with.  When the data query fails (a non-numeric page or
\* limit) the listing reports total_items 0 whatever the table holds.
C9_TotalItemsCountsTheFilter ==
    ListingAnswered({"products"})
    => resp.total_items =
          Num(Cardinality({ i \in 1..Len(productos) :
                 ProductFilter(productos[i], req.q.search, req.q.category, req.q.status) }))

----------------------------------------------------------------------------
(* Properties of the in-memory server *)

\* some product of the store has the identifier the text denotes
IdInStore(id) ==
    IsIntegerText(id) /\ \E i \in 1..Len(products) : products[i].id = IntegerValue(id)

\* C10: PUT, PATCH status, PUT stock and DELETE with an identifier that no
\* product of the store has are answered with 404 and leave the store as it
\* was.
C10_MissingIdIs404 ==
    [][ (memReq'.op \in {"update", "status", "stock", "delete"} /\ ~IdInStore(memReq'.id))
        => (memResp'.code = 404 /\ products' = products) ]_vars

\* C10, its case: DELETE of an identifier no product has, the store not empty
C10_Witness ==
    /\ memReq.op = "delete" /\ memReq.id = <<"9">>
    /\ memResp.code = 404
    /\ Len(products) > 0

----------------------------------------------------------------------------
(* Properties of the listings when a query fails *)

\* C11: when the count query or the data query of the products listing of
\* server.js fails, the request is answered with HTTP 500 and never with a
\* success response.  getProductsWithPagination catches the failure itself
\* and hands back an empty result, which the handler answers with 200.
C11_QueryFailureIs500 ==
    (req.ep = "products" /\ dataQ.ran /\ ~dataQ.ok) => resp.code = 500

----------------------------------------------------------------------------
(* Properties of the hybrid server *)

\* text contains term, letter case ignored
ContainsIgnoringCase(text, term) == includes(toLowerCase(text), toLowerCase(term))

\* C12: when the relational query of GET /api/products of the hybrid server
\* fails, the response holds exactly the in-memory products whose name or
\* description contains the search term, letter case ignored.  The catch of
\* the handler answers with the whole of memoryProducts instead.
C12_FallbackIsFiltered ==
    (hybReq.op = "list" /\ hybQuery = "failed" /\ Truthy(hybReq.search))
    => /\ hybResp.code = 200
       /\ hybResp.body =
            SelectSeq(memoryProducts,
                      LAMBDA p : \/ ContainsIgnoringCase(p.name, hybReq.search.s)
                                 \/ ContainsIgnoringCase(p.description, hybReq.search.s))

----------------------------------------------------------------------------
(* Properties of server.js across requests *)

\* the query asks for page 1 with the search term as its only parameter
SearchOnly(q) == Truthy(q.search) /\ q = [EmptyQuery EXCEPT !.search = q.search]

\* the search term keeps the last row of productos and no other
MatchesOnlyLastRow(search) ==
    \A i \in 1..Len(productos) :
       ProductFilter(productos[i], search, Absent, Absent) <=> (i = Len(productos))

\* C13: POST /api/products answered with success and followed at once by GET
\* /api/products for page 1 with a search term that matches only the new
\* product: the listing returns exactly one record, whose name, description,
\* price, stock and category are those of the request body and of the
\* response to the POST, whatever the branch and the stock.  A body naming a
\* branch that is no sucursal stores no inventory, and the listing shows
\* stock 0.
C13_CreateThenSearchRoundTrip ==
    [][ ( /\ req.ep = "createProduct" /\ resp.code = 200
          /\ req'.ep = "products" /\ SearchOnly(req'.q)
          /\ MatchesOnlyLastRow(req'.q.search) )
        => /\ resp'.code = 200
           /\ Len(resp'.records) = 1
           /\ \A created \in { resp.records[1] }, listed \in { resp'.records[1] } :
                /\ listed.name = created.name /\ listed.name = req.body.name.s
                /\ listed.description = created.description
                /\ listed.description = req.body.description
                /\ listed.price = created.price /\ listed.price = req.body.price.v
                /\ listed.stock = created.stock /\ listed.stock = req.body.stock
                /\ listed.category = created.category
                /\ listed.category = req.body.category ]_vars

\* C14: two identical queries of the products listing with no write between
\* them are answered alike: the same pagination metadata and the same records
\* in the same order, rows equal on the sort field included.  ORDER BY names
\* the sort field alone, so the database may arrange such rows differently
\* from one execution to the next.
C14_RepeatedListingIsIdentical ==
    [][ ( /\ req.ep = "products" /\ req' = req
          /\ productos' = productos
          /\ resp.code = 200 )
        => resp' = resp ]_vars

----------------------------------------------------------------------------
(* Properties of the in-memory listing *)

\* the product passes the search term: no term, or the term occurs in the
\* name, the description or the category, letter case ignored
MatchesSearch(p, search) ==
    \/ ~Truthy(search)
    \/ ContainsIgnoringCase(p.name.s, search.s)
    \/ ContainsIgnoringCase(p.description.s, search.s)
    \/ ContainsIgnoringCase(p.category.s, search.s)

\* the product passes the status filter; a status other than active and
\* inactive filters nothing
MatchesStatus(p, status) ==
    IF status = Str(sActive) THEN p.active
    ELSE IF status = Str(sInactive) THEN ~p.active
    ELSE TRUE

\* the products a listing with this search term and status is to return
Expected(search, status) ==
    SelectSeq(products, LAMBDA p : MatchesSearch(p, search) /\ MatchesStatus(p, status))

\* C15: GET /api/products of the in-memory server returns, in insertion
\* order, exactly the products that pass the search term and the status
\* filter.  A product stored without a name makes every listing with a search
\* term fail (C16), so the listing then returns no product at all.
C15_MemListingIsTheFilter ==
    memReq.op = "list"
    => /\ memResp.code = 200
       /\ memResp.body = Expected(memReq.search, memReq.status)

\* C16: whatever bodies the create, update, status, stock and delete
\* requests carried before, every GET /api/products of the in-memory server
\* succeeds, with or without a search term.  A product stored without a name
\* makes product.name.toLowerCase() throw as soon as a search term is given.
C16_MemListingNeverFails ==
    memReq.op = "list" => memResp.code = 200

----------------------------------------------------------------------------
(* Properties of the data queries of server.js *)

\* C17: the data query of each paginated endpoint of server.js (products,
\* orders, low-stock report) has LIMIT equal to the page size and OFFSET equal
\* to (page - 1) * page size, both bound as the last two parameters after the
\* parameters of the filter.  The statement of the low-stock report carries
\* the numbers paramIndex and paramIndex + 1 in place of the two placeholders.
C17_LimitOffsetBoundLast ==
    (req.ep \in ListingEndpoints /\ dataQ.ran)
    => /\ dataQ.limit = norm.limitNum
       /\ dataQ.offset = JsMul(JsSub(norm.pageNum, Num(1)), norm.limitNum)
       /\ dataQ.placeholders = dataQ.bound

\* C18: in the hybrid server, a handler whose read or write on the database
\* raised an error has set dbConnected to false by the time it responds.
\* The catch blocks of GET and POST /api/products leave dbConnected as it is;
\* only the health check clears it.
C18_FailureClearsDbConnected ==
    (hybReq.op \in {"health", "list", "create"} /\ hybQuery = "failed") => ~dbConnected

\* C19: in the hybrid server dbConnected becomes true only in
\* testDatabaseConnection, which runs once when the server starts; once the
\* flag is false after that, it stays false whatever is requested.
C19_DbConnectedSetOnlyByProbe ==
    [][ /\ (~dbConnected /\ dbConnected') => (hybPhase = "boot" /\ hybReq'.op = "probe")
        /\ (~dbConnected /\ hybPhase # "boot") => ~dbConnected' ]_vars

\* C19, its case: the server started connected and copied its products into
\* the database, a health check has cleared the flag, and a later health
\* check is answered without a query, the flag still false
C19_Witness ==
    /\ hybPhase = "serving"
    /\ pgProducts # <<>>
    /\ hybReq.op = "health" /\ hybQuery = "none"
    /\ ~dbConnected

----------------------------------------------------------------------------
(* Properties of the routine flags *)

\* C20: the flags of functionsAvailable only degrade while the server runs.
\* A request whose call of a routine failed leaves the flag of that routine
\* false; while a flag is false no request calls the routine, and no request
\* sets the flag back to true.
C20_RoutineFlagsOnlyDegrade ==
    [][ \A f \in Routines :
          /\ (routine'.name = f /\ ~routine'.ok) => ~functionsAvailable'[f]
          /\ ~functionsAvailable[f] => (~functionsAvailable'[f] /\ routine'.name # f) ]_vars

\* C20, its case: a call of buscar_productos has failed before, and a later
\* products listing is answered from the generic query without calling it
C20_Witness ==
    /\ ~functionsAvailable.buscar_productos
    /\ req.ep = "productsExt" /\ routine = NoRoutine
    /\ resp.code = 200 /\ dataQ.ran

----------------------------------------------------------------------------
(* Properties of the optional routines *)

\* the number of rows of productos the filter of the request keeps
MatchingProducts ==
    Cardinality({ i \in 1..Len(productos) :
        ProductFilter(productos[i], req.q.search, req.q.category, req.q.status) })

\* C21: when the call of obtener_estadisticas (in /api/stats or /api/health)
\* or of buscar_productos (in the products listing) fails while the plain
\* queries of the request succeed, that same request is answered with a
\* success response computed from the plain queries, never with an error.
C21_RoutineFailureAbsorbed ==
    (routine.name \in Routines /\ ~routine.ok /\ dataQ.ran /\ dataQ.ok)
    => /\ resp.code = 200
       /\ req.ep = "productsExt" => resp.total_items = Num(MatchingProducts)
       /\ req.ep \in {"stats", "health"}
          => /\ resp.records[1].totalProducts = Len(productos)
             /\ resp.records[1].activeProducts =
                   Cardinality({ i \in 1..Len(productos) : productos[i].activo })

\* C21, its case: the call of obtener_estadisticas failed in /api/stats, the
\* plain queries succeeded and the request is answered with the statistics
C21_Witness ==
    /\ req.ep = "stats"
    /\ routine = Called("obtener_estadisticas", FALSE)
    /\ dataQ.ok
    /\ resp.code = 200 /\ resp.records[1].totalProducts = Len(productos)

----------------------------------------------------------------------------
(* Properties of the in-memory store *)

\* C22: no two products of the in-memory store have the same identifier,
\* whatever creates, updates, status changes and deletes came before.  The
\* identifier of a new product is the reading of Date.now(), and two creates
\* handled within the same millisecond read the same value.
C22_IdentifiersUnique ==
    \A i, j \in 1..Len(products) : products[i].id = products[j].id => i = j

\* the sum of the quantities of a stock_by_branch map
RECURSIVE SumOver(_, _)
SumOver(byBranch, branches) ==
    IF branches = {} THEN Num(0)
    ELSE LET b == CHOOSE x \in branches : TRUE
         IN JsAdd(byBranch[b], SumOver(byBranch, branches \ {b}))

\* C23: the stock of every product of the in-memory store is the sum of the
\* quantities of its stock_by_branch map, whatever creates, updates, stock
\* updates, status changes and deletes came before.  PUT /api/products/:id
\* writes stock and leaves stock_by_branch as it was.
C23_StockIsSumOfBranches ==
    \A i \in 1..Len(products) :
       /\ IsNum(products[i].stock)
       /\ products[i].stock =
             SumOver(products[i].stock_by_branch, DOMAIN products[i].stock_by_branch)

----------------------------------------------------------------------------
(* Properties of concurrent requests *)

\* the number of rows of a table the filter of a query keeps
Matching(rows, q) ==
    Cardinality({ i \in 1..Len(rows) :
        ProductFilter(rows[i], q.search, q.category, q.status) })

\* C24: in a products listing the count query runs before the data query and
\* nothing keeps the write of another request from coming between the two:
\* total_items is the number of rows that matched when the count query ran,
\* the page is read from the table as it is when the data query runs, and
\* the two can differ.
C24_CountPrecedesPageUnlocked ==
    [][ /\ (~inflight.active /\ inflight'.active)
           => inflight'.totalCount = Num(Matching(productos, inflight'.q))
        /\ (inflight.active /\ ~inflight'.active /\ dataQ'.ok)
           => /\ resp'.total_items = inflight.totalCount
              /\ dataQ'.matched = Matching(productos', req'.q) ]_vars

\* C24, its case: a response whose page holds more records than total_items
\* says exist
C24_Witness ==
    /\ req.ep = "products" /\ resp.code = 200 /\ dataQ.ok
    /\ Len(resp.records) > resp.total_items.v
    /\ dataQ.matched # resp.total_items.v

\* position i holds the first product whose identifier the text denotes
FirstWithId(store, i, id) ==
    /\ i \in 1..Len(store)
    /\ ToNumberStr(id) = Num(store[i].id)
    /\ \A j \in 1..(i - 1) : ToNumberStr(id) # Num(store[j].id)

\* the two stores differ at position i at most
SameExceptAt(before, after, i) ==
    /\ Len(after) = Len(before)
    /\ \A j \in 1..Len(before) : j # i => after[j] = before[j]

\* C25: each mutation of the in-memory store runs from its lookup to its
\* write as one step: the store a request leaves is the store the previous
\* request left with that one request applied in full (the product it looked
\* up, and no other, updated or removed; a new product appended), so the
\* store is always the result of the requests applied one after the other.
C25_MemMutationsApplyWhole ==
    [][ \A op \in {"create", "update", "status", "stock", "delete"} :
          (memReq'.op = op /\ memResp'.code = 200)
          => \/ /\ op = "create"
                /\ products' = Append(products, memResp'.body[1])
             \/ /\ op = "delete"
                /\ \E i \in 1..Len(products) :
                      /\ FirstWithId(products, i, memReq'.id)
                      /\ products' = SubSeq(products, 1, i - 1)
                                        \o SubSeq(products, i + 1, Len(products))
             \/ /\ op \in {"update", "status", "stock"}
                /\ \E i \in 1..Len(products) :
                      /\ FirstWithId(products, i, memReq'.id)
                      /\ SameExceptAt(products, products', i)
                      /\ products'[i].id = products[i].id
                      /\ memResp'.body = << products'[i] >>
                      /\ op = "status" =>
                            products'[i] = [products[i] EXCEPT !.active = products'[i].active]
                      /\ op = "stock" =>
                            /\ products'[i] =
                                  [products[i] EXCEPT
                                      !.stock = products'[i].stock,
                                      !.stock_by_branch = products'[i].stock_by_branch]
                            /\ products'[i].stock =
                                  SumOver(products'[i].stock_by_branch,
                                          DOMAIN products'[i].stock_by_branch)
                      /\ op = "update" =>
                            /\ products'[i].active = products[i].active
                            /\ products'[i].stock_by_branch = products[i].stock_by_branch ]_vars

\* C25, its case: a product created by one request has been deleted by a
\* later one, the other products still in the store
C25_Witness ==
    /\ memReq.op = "delete" /\ memReq.id = <<"1", "0">>
    /\ memResp.code = 200
    /\ Len(products) >= 2

----------------------------------------------------------------------------
(* Properties of the hybrid server across requests *)

\* the names of the products either store of the hybrid server holds
StoredNames ==
    { pgProducts[i].name : i \in 1..Len(pgProducts) }
       \cup { memoryProducts[i].name : i \in 1..Len(memoryProducts) }

\* the names of the products a successful POST /api/products has stored
CreatedNames ==
    StoredNames \ { SeedMemoryProducts[i].name : i \in 1..Len(SeedMemoryProducts) }

\* C26: a product of the hybrid server whose creation was answered with
\* success is returned by every later GET /api/products without search term,
\* also when dbConnected has become false since.  A product created in the
\* database is missing from memoryProducts, which is what the listing
\* returns once dbConnected is false or the query fails.
C26_CreatedProductStaysListed ==
    (hybReq.op = "list" /\ ~Truthy(hybReq.search))
    => \A name \in CreatedNames :
          \E i \in 1..Len(hybResp.body) : hybResp.body[i].name = name

\* C27: every client acquired from the connection pool is released again on
\* every path, also when the query made with it fails, so that between
\* requests no client is held.  The start-up probe releases its client after
\* the query inside the try block and not in a finally: when the query
\* throws, the client is never released.
C27_ClientsReleased ==
    clients = 0

\* C29: the database field of the response of GET /api/health of the hybrid
\* server agrees with dbConnected as it is when the response is sent: the
\* response tells that PostgreSQL is connected only when the query of that
\* same request succeeded.  The handler computes the field before it runs
\* the query, and the catch that clears dbConnected leaves the field alone.
C29_HealthReportsCurrentFlag ==
    hybReq.op = "health" => hybResp.body[1].database = dbConnected

----------------------------------------------------------------------------
(* Properties of the corrected products listing *)

----------------------------------------------------------------------------
(* Properties of product creation on PostgreSQL *)

\* C30: POST /api/products on PostgreSQL is all-or-nothing: a success
\* response comes with the new row of productos and its row of inventarios
\* (the product then has stock), any other response leaves productos as it
\* was.  server.js answers success after the inventory step was skipped for
\* a branch that is no sucursal.
C30_CreationAllOrNothing ==
    [][ req'.ep = "createProduct" =>
          IF resp'.code = 200
          THEN /\ Len(productos') = Len(productos) + 1
               /\ productos'[Len(productos')].stock_total > 0
          ELSE productos' = productos ]_vars

====
